---- MODULE Spec2Model ----
(***************************************************************************)
(* Clock-trust subsystem of the LED word clock (CLOCKupdateDST.py):        *)
(* class TimeManager, the startup sequence, the display loop, the          *)
(* background NTP monitor thread and the signal-driven cleanup.            *)
(*                                                                         *)
(* Python's None is the empty tuple, a present value v is <<v>>.           *)
(* Timestamps are the integer reading of the system clock `now`.           *)
(***************************************************************************)
EXTENDS Integers, Sequences, FiniteSets

None == <<>>
Some(v) == <<v>>

\* ---- bounds of the model ------------------------------------------------
MaxTime == 1        \* the system clock reads 0..MaxTime
MaxLog == 2         \* the DST flag stops flipping once the log holds this many
MaxNotes == 2       \* console lines of the monitor kept (most recent ones)
StatusEvery == 2    \* loop iterations per status summary; line 569 has 300

\* ---- program constants --------------------------------------------------
\* EXPECTED_TIMEZONE = "Europe/Amsterdam", a string as the sequence of its
\* pieces, so that Python's substring test is a test on contiguous pieces.
EXPECTED_TIMEZONE == <<"Europe", "/Amsterdam">>

\* ---- the external commands ----------------------------------------------
\* What one subprocess.run(['timedatectl'], ...) can do: raise (exc), or
\* return an exit status and the text after the label looked for (value;
\* None when stdout has no line with that label).
ProbeExceptions == {"TimeoutExpired", "FileNotFoundError"}

Raises(e) == [exc |-> e, returncode |-> 0, value |-> None]
Exits(rc, v) == [exc |-> "none", returncode |-> rc, value |-> v]

ReportedZones ==
    { <<"Europe", "/Amsterdam">>,
      <<"Europe", "/Amsterdam", " (CEST, +0200)">>,
      <<"Europe", "/Berlin">>,
      <<"UTC">> }

TimezoneOutcomes ==
    {Raises(e) : e \in ProbeExceptions}
        \cup {Exits(1, None), Exits(0, None)}
        \cup {Exits(0, Some(z)) : z \in ReportedZones}

NtpValues == {"yes", "True", "no"}

NtpOutcomes ==
    {Raises(e) : e \in ProbeExceptions}
        \cup {Exits(1, None), Exits(0, None)}
        \cup {Exits(0, Some(v)) : v \in NtpValues}

\* `EXPECTED_TIMEZONE in timezone_info` (line 90)
IsSubstring(needle, hay) ==
    \E i \in 0..(Len(hay) - Len(needle)) :
        SubSeq(hay, i + 1, i + Len(needle)) = needle

\* str.lower() on the values the command prints (line 122) and on the
\* operator's answer (line 540)
lower(v) == IF v = "True" THEN "true" ELSE IF v = "Y" THEN "y" ELSE v

\* ntp_sync as lines 117-123 and 218-223 compute it from stdout
ParseNtpSync(o) ==
    /\ o.value # None
    /\ lower(o.value[1]) \in {"yes", "true"}

\* `except Exception` (lines 106, 154) catches every subclass of Exception
CaughtByExceptException(e) == e \in ProbeExceptions

VARIABLES
    \* fields of TimeManager (lines 31-43)
    timezone_verified, ntp_synced, last_ntp_sync_time, ntp_loss_time,
    dst_transitions_logged, last_dst_state, startup_diagnostics_done,
    offline_mode, stop_monitoring,
    \* the environment
    now,            \* datetime.now()
    tm_isdst,       \* time_module.localtime().tm_isdst
    \* the main thread
    main_pc, current_dst, time_ok, response, status_counter, verified_time,
    offline_duration,
    \* the monitor thread; "None" while ntp_monitor_thread is None
    mon_pc, was_synced,
    \* observation
    console,        \* notifications printed by the monitor, latest last
    probe           \* the function that ran the latest timedatectl, or None

vars == << timezone_verified, ntp_synced, last_ntp_sync_time, ntp_loss_time,
           dst_transitions_logged, last_dst_state, startup_diagnostics_done,
           offline_mode, stop_monitoring, now, tm_isdst, main_pc,
           current_dst, time_ok, response, status_counter, verified_time,
           offline_duration, mon_pc, was_synced, console, probe >>

ntp_vars == << ntp_synced, last_ntp_sync_time, ntp_loss_time, offline_mode >>
dst_vars == << dst_transitions_logged, last_dst_state >>
env_vars == << now, tm_isdst >>
mon_vars == << mon_pc, was_synced, console >>

\* the NTP fields as one record, for the update functions
NtpState ==
    [ ntp_synced |-> ntp_synced,
      last_ntp_sync_time |-> last_ntp_sync_time,
      ntp_loss_time |-> ntp_loss_time,
      offline_mode |-> offline_mode ]

SetNtpState(s) ==
    /\ ntp_synced' = s.ntp_synced
    /\ last_ntp_sync_time' = s.last_ntp_sync_time
    /\ ntp_loss_time' = s.ntp_loss_time
    /\ offline_mode' = s.offline_mode

\* TimeManager.__init__ (lines 30-43); the process starts in main()
Init ==
    /\ timezone_verified = FALSE
    /\ ntp_synced = FALSE
    /\ last_ntp_sync_time = None
    /\ ntp_loss_time = None
    /\ dst_transitions_logged = << >>
    /\ last_dst_state = None
    /\ startup_diagnostics_done = FALSE
    /\ offline_mode = FALSE
    /\ stop_monitoring = FALSE
    /\ now = 0
    /\ tm_isdst \in {0, 1}
    /\ main_pc = "verify_system_time"
    /\ current_dst = None
    /\ time_ok = None
    /\ response = None
    /\ status_counter = 0
    /\ verified_time = None
    /\ offline_duration = None
    /\ mon_pc = "None"
    /\ was_synced = FALSE
    /\ console = << >>
    /\ probe = None

\* ---- TimeManager: the update functions ----------------------------------

\* _check_timezone with `==` in place of `in` at line 90
check_timezone_exact(o) ==
    IF o.exc # "none" THEN FALSE
    ELSE IF o.returncode # 0 THEN FALSE
    ELSE IF o.value = None THEN FALSE
    ELSE o.value[1] = EXPECTED_TIMEZONE

\* _check_timezone (lines 78-108): the value left in timezone_verified
check_timezone(o) ==
    IF o.exc # "none" THEN FALSE                       \* lines 106-108
    ELSE IF o.returncode # 0 THEN FALSE                \* lines 102-104
    ELSE IF o.value = None THEN FALSE                  \* lines 99-101
    ELSE IsSubstring(EXPECTED_TIMEZONE, o.value[1])    \* lines 90-98

\* lines 139-144 without the assignment of last_ntp_sync_time
SyncRegained_untimed(s, t) ==
    [ ntp_synced |-> TRUE,
      last_ntp_sync_time |-> s.last_ntp_sync_time,
      ntp_loss_time |-> None,
      offline_mode |-> FALSE ]

\* the branch `if ntp_sync:` of lines 139-144 and 226-230
SyncRegained(s, t) ==
    [ ntp_synced |-> TRUE,
      last_ntp_sync_time |-> Some(t),
      ntp_loss_time |-> None,
      offline_mode |-> FALSE ]

\* the branch of lines 149-152, 232-235 and 240-243
SyncLost(s, t) ==
    [ s EXCEPT !.ntp_synced = FALSE,
               !.ntp_loss_time = IF s.ntp_loss_time = None THEN Some(t) ELSE @,
               !.offline_mode = TRUE ]

\* _check_ntp_sync (lines 110-157): the NTP fields it leaves, from the
\* fields s before the call, the outcome o of timedatectl and the clock t
check_ntp_sync(s, o, t) ==
    IF o.exc # "none"
    THEN [s EXCEPT !.ntp_synced = FALSE, !.offline_mode = TRUE]  \* 154-157
    ELSE IF o.returncode # 0 THEN s            \* line 114 has no else branch
    ELSE IF ParseNtpSync(o) THEN SyncRegained(s, t)
    ELSE SyncLost(s, t)

\* _check_ntp_status_quiet (lines 212-243)
check_ntp_status_quiet(s, o, t) ==
    IF o.exc # "none"
    THEN IF s.ntp_synced THEN SyncLost(s, t) ELSE s             \* 237-243
    ELSE IF o.returncode # 0 THEN s            \* line 216 has no else branch
    ELSE IF ParseNtpSync(o) /\ ~s.ntp_synced THEN SyncRegained(s, t)
    ELSE IF ~ParseNtpSync(o) /\ s.ntp_synced THEN SyncLost(s, t)
    ELSE s

\* lines 200-206 with the second test on the level, not on the edge
Notification_level(was, is) ==
    IF ~was /\ is THEN Some("NTP RESTORED")
    ELSE IF ~is THEN Some("NTP LOST")
    ELSE None

\* the notification of lines 200-206, None when nothing is printed
Notification(was, is) ==
    IF ~was /\ is THEN Some("NTP RESTORED")
    ELSE IF was /\ ~is THEN Some("NTP LOST")
    ELSE None

\* print() of a notification; the model keeps the latest MaxNotes lines
Emit(c, n) ==
    IF n = None THEN c
    ELSE LET s == c \o n IN IF Len(s) > MaxNotes THEN Tail(s) ELSE s

\* monitor_dst_transition without the assignment of line 267
monitor_dst_transition_stale(done, last, log, flag, t) ==
    IF ~done THEN [last |-> last, log |-> log]
    ELSE IF last # None /\ Some(flag) # last
    THEN [ last |-> last,
           log |-> Append(log,
                     [ time |-> t,
                       type |-> IF flag # 0 THEN "Spring Forward"
                                            ELSE "Fall Back",
                       dst_active |-> flag ]) ]
    ELSE [last |-> last, log |-> log]

\* monitor_dst_transition without the gate of lines 247-248
monitor_dst_transition_ungated(done, last, log, flag, t) ==
    IF last # None /\ Some(flag) # last
    THEN [ last |-> Some(flag),
           log |-> Append(log,
                     [ time |-> t,
                       type |-> IF flag # 0 THEN "Spring Forward"
                                            ELSE "Fall Back",
                       dst_active |-> flag ]) ]
    ELSE [last |-> last, log |-> log]

\* monitor_dst_transition (lines 245-267): the DST fields it leaves, from
\* the gate, the fields before the call, the OS flag and the clock
monitor_dst_transition(done, last, log, flag, t) ==
    IF ~done THEN [last |-> last, log |-> log]                  \* 247-248
    ELSE IF last # None /\ Some(flag) # last                    \* line 252
    THEN [ last |-> Some(flag),
           log |-> Append(log,
                     [ time |-> t,
                       type |-> IF flag # 0 THEN "Spring Forward"
                                            ELSE "Fall Back",
                       dst_active |-> flag ]) ]
    ELSE [last |-> last, log |-> log]

\* get_offline_duration with the operands of line 279 exchanged
get_offline_duration_reversed(loss, offline, t) ==
    IF loss # None /\ offline THEN Some(loss[1] - t) ELSE None

\* get_offline_duration (lines 276-280)
get_offline_duration(loss, offline, t) ==
    IF loss # None /\ offline THEN Some(t - loss[1]) ELSE None

\* what a call of get_offline_duration returns in the current state
GetOfflineDuration == get_offline_duration(ntp_loss_time, offline_mode, now)

\* ---- the main thread ----------------------------------------------------

Alive == main_pc \notin {"exited", "crashed"}

\* get_verified_time with a synchronous timedatectl call before line 274
get_verified_time_probing ==
    /\ LET r == monitor_dst_transition(startup_diagnostics_done,
                    last_dst_state, dst_transitions_logged, tm_isdst, now)
       IN /\ last_dst_state' = r.last
          /\ dst_transitions_logged' = r.log
    /\ verified_time' = Some(now)
    /\ probe' = Some("get_verified_time")
    /\ UNCHANGED << ntp_vars, timezone_verified, stop_monitoring >>

\* get_verified_time as it would be if it marked the clock as synced
get_verified_time_resync ==
    /\ LET r == monitor_dst_transition(startup_diagnostics_done,
                    last_dst_state, dst_transitions_logged, tm_isdst, now)
       IN /\ last_dst_state' = r.last
          /\ dst_transitions_logged' = r.log
    /\ verified_time' = Some(now)
    /\ SetNtpState(SyncRegained(NtpState, now))
    /\ UNCHANGED << probe, timezone_verified, stop_monitoring >>

\* get_verified_time (lines 269-274): the DST fields and the returned
\* time are all it writes
get_verified_time ==
    /\ LET r == monitor_dst_transition(startup_diagnostics_done,
                    last_dst_state, dst_transitions_logged, tm_isdst, now)
       IN /\ last_dst_state' = r.last
          /\ dst_transitions_logged' = r.log
    /\ verified_time' = Some(now)
    /\ UNCHANGED << probe, ntp_vars, timezone_verified, stop_monitoring >>

\* verify_system_time, lines 47-59: reads the DST flag, then _check_timezone
CheckTimezoneWith(o) ==
    /\ main_pc = "verify_system_time"
    /\ timezone_verified' = check_timezone(o)
    /\ probe' = Some("check_timezone")
    /\ main_pc' = IF o.exc # "none" /\ ~CaughtByExceptException(o.exc)
                  THEN "crashed" ELSE "check_ntp_sync"
    /\ current_dst' = Some(tm_isdst)
    /\ UNCHANGED << ntp_vars, dst_vars, startup_diagnostics_done,
                    stop_monitoring, env_vars, time_ok, response, status_counter,
                    verified_time, offline_duration, mon_vars >>

CheckTimezone == \E o \in TimezoneOutcomes : CheckTimezoneWith(o)

\* verify_system_time, line 62: _check_ntp_sync.  With sig, a termination
\* signal arrives during the systemctl query of lines 127-131: cleanup runs
\* (stop_monitoring = True, no thread to join) and its SystemExit is
\* swallowed by the bare except of line 132.
CheckNtpSyncWith(o, sig) ==
    /\ main_pc = "check_ntp_sync"
    /\ sig => (o.exc = "none" /\ o.returncode = 0)
    /\ SetNtpState(check_ntp_sync(NtpState, o, now))
    /\ probe' = Some("check_ntp_sync")
    /\ stop_monitoring' = IF sig THEN TRUE ELSE stop_monitoring
    /\ main_pc' = IF o.exc # "none" /\ ~CaughtByExceptException(o.exc)
                  THEN "crashed" ELSE "start_ntp_monitoring"
    /\ UNCHANGED << timezone_verified, dst_vars, startup_diagnostics_done,
                    env_vars, current_dst, time_ok, response, status_counter,
                    verified_time, offline_duration, mon_vars >>

CheckNtpSync ==
    \E o \in NtpOutcomes, sig \in BOOLEAN : CheckNtpSyncWith(o, sig)

\* `self.ntp_monitor_thread and self.ntp_monitor_thread.is_alive()`
ThreadIsAlive == mon_pc \notin {"None", "exited"}

\* _start_ntp_monitoring (lines 180-186)
start_ntp_monitoring ==
    IF ~ThreadIsAlive
    THEN stop_monitoring' = FALSE /\ mon_pc' = "while"
    ELSE UNCHANGED << stop_monitoring, mon_pc >>

\* line 76 as it would read with NTP_SYNC_REQUIRED honoured
verify_system_time_requires_ntp(tz_verified, synced) == tz_verified /\ synced

\* the value verify_system_time returns (line 76), from the fields
verify_system_time_returns(tz_verified, synced) == tz_verified

\* verify_system_time, lines 65-76, and the test of line 537: the thread is
\* started, the DST state is initialised, the gate is raised, the result is
\* returned to startup_sequence
VerifyFinish ==
    /\ main_pc = "start_ntp_monitoring"
    /\ start_ntp_monitoring
    /\ last_dst_state' = current_dst
    /\ startup_diagnostics_done' = TRUE
    /\ time_ok' = Some(verify_system_time_returns(timezone_verified,
                                                  ntp_synced))
    /\ main_pc' = IF time_ok' = Some(TRUE) THEN "first_display" ELSE "prompt"
    /\ UNCHANGED << timezone_verified, ntp_vars, dst_transitions_logged,
                    env_vars, current_dst, response, status_counter,
                    verified_time, offline_duration, was_synced, console,
                    probe >>

\* what input() of line 540 can give: a line typed by the operator, or None
\* when it raises EOFError (no terminal)
PromptInputs == {Some(a) : a \in {"y", "Y", "n", ""}} \cup {None}

\* lines 540-543 as a prompt that defaults to yes: only 'n' exits
PromptWith_DefaultYes(a) ==
    /\ main_pc = "prompt"
    /\ IF a = None
       THEN main_pc' = "crashed" /\ UNCHANGED response
       ELSE /\ response' = Some(lower(a[1]))
            /\ main_pc' = IF response' = Some("n")
                          THEN "exited" ELSE "first_display"
    /\ UNCHANGED << timezone_verified, ntp_vars, dst_vars,
                    startup_diagnostics_done, stop_monitoring, env_vars,
                    current_dst, time_ok, status_counter, verified_time,
                    offline_duration, mon_vars, probe >>

\* startup_sequence, lines 540-543: response = input(...).lower(); any
\* response but 'y' is sys.exit(1); the EOFError is not caught
PromptWith(a) ==
    /\ main_pc = "prompt"
    /\ IF a = None
       THEN main_pc' = "crashed" /\ UNCHANGED response
       ELSE /\ response' = Some(lower(a[1]))
            /\ main_pc' = IF response' # Some("y")
                          THEN "exited" ELSE "first_display"
    /\ UNCHANGED << timezone_verified, ntp_vars, dst_vars,
                    startup_diagnostics_done, stop_monitoring, env_vars,
                    current_dst, time_ok, status_counter, verified_time,
                    offline_duration, mon_vars, probe >>

Prompt == \E a \in PromptInputs : PromptWith(a)

\* startup_sequence, line 553: display_current_time(force_log=True), outside
\* any try; fails when the rendering after line 438 raises
FirstDisplay ==
    /\ main_pc = "first_display"
    /\ get_verified_time
    /\ \E fails \in BOOLEAN :
        main_pc' = IF fails THEN "crashed" ELSE "loop"
    /\ UNCHANGED << startup_diagnostics_done, env_vars, current_dst,
                    time_ok, response, status_counter, offline_duration,
                    mon_vars >>

\* print_status_summary (lines 282-298): its local offline_duration, None
\* when line 287 is not reached or the summary is not due on this tick
print_status_summary ==
    offline_duration' =
        IF offline_mode
        THEN get_offline_duration(ntp_loss_time, offline_mode, now)
        ELSE None

\* one iteration of the loop of main (lines 562-580)
LoopTick ==
    /\ main_pc = "loop"
    /\ get_verified_time
    /\ \E fails \in BOOLEAN :
        IF fails
        THEN UNCHANGED status_counter /\ offline_duration' = None \* 577-580
        ELSE IF status_counter + 1 >= StatusEvery
             THEN print_status_summary /\ status_counter' = 0
             ELSE /\ status_counter' = status_counter + 1
                  /\ offline_duration' = None
    /\ UNCHANGED << startup_diagnostics_done, env_vars, main_pc,
                    current_dst, time_ok, response, mon_vars >>

\* stop_ntp_monitoring (lines 300-304): sets the flag, then joins if the
\* thread is alive
stop_ntp_monitoring ==
    /\ stop_monitoring' = TRUE
    /\ main_pc' = IF ThreadIsAlive THEN "join" ELSE "stop_returned"

\* SIGINT or SIGTERM: cleanup (lines 324-337) runs on the main thread
SigCleanup ==
    /\ main_pc \notin {"exited", "crashed", "join", "stop_returned"}
    /\ stop_ntp_monitoring
    /\ UNCHANGED << timezone_verified, ntp_vars, dst_vars,
                    startup_diagnostics_done, env_vars, current_dst, time_ok, response,
                    status_counter, verified_time, offline_duration,
                    mon_vars, probe >>

\* line 304 as join() without a timeout: returns only when the thread ended
JoinReturn_NoTimeout ==
    /\ main_pc = "join"
    /\ mon_pc = "exited"
    /\ main_pc' = "stop_returned"
    /\ UNCHANGED << timezone_verified, ntp_vars, dst_vars,
                    startup_diagnostics_done, stop_monitoring, env_vars,
                    current_dst, time_ok, response, status_counter, verified_time,
                    offline_duration, mon_vars, probe >>

\* join(timeout=1) of line 304 returns: the thread ended or the second passed
JoinReturn ==
    /\ main_pc = "join"
    /\ main_pc' = "stop_returned"
    /\ UNCHANGED << timezone_verified, ntp_vars, dst_vars,
                    startup_diagnostics_done, stop_monitoring, env_vars,
                    current_dst, time_ok, response, status_counter, verified_time,
                    offline_duration, mon_vars, probe >>

\* cleanup, lines 331-337: LEDs off, sys.exit(0)
CleanupExit ==
    /\ main_pc = "stop_returned"
    /\ main_pc' = "exited"
    /\ UNCHANGED << timezone_verified, ntp_vars, dst_vars,
                    startup_diagnostics_done, stop_monitoring, env_vars,
                    current_dst, time_ok, response, status_counter, verified_time,
                    offline_duration, mon_vars, probe >>

\* ---- the monitor thread (daemon: it ends with the process) --------------

\* `while not self.stop_monitoring:` (line 190), then sleep (line 192)
MonitorWhile ==
    /\ Alive
    /\ mon_pc = "while"
    /\ mon_pc' = IF stop_monitoring THEN "exited" ELSE "sleep"
    /\ UNCHANGED << timezone_verified, ntp_vars, dst_vars,
                    startup_diagnostics_done, stop_monitoring, env_vars,
                    main_pc, current_dst, time_ok, response, status_counter,
                    verified_time, offline_duration, was_synced, console,
                    probe >>

\* lines 192-198 without the check of lines 193-194 after the sleep
MonitorWake_NoCheck ==
    /\ Alive
    /\ mon_pc = "sleep"
    /\ mon_pc' = "probing" /\ was_synced' = ntp_synced
    /\ UNCHANGED << timezone_verified, ntp_vars, dst_vars,
                    startup_diagnostics_done, stop_monitoring, env_vars,
                    main_pc, current_dst, time_ok, response, status_counter,
                    verified_time, offline_duration, console, probe >>

\* the sleep ends; lines 193-198: break if stopped, else read was_synced
\* and start the probe
MonitorWake ==
    /\ Alive
    /\ mon_pc = "sleep"
    /\ IF stop_monitoring
       THEN mon_pc' = "exited" /\ UNCHANGED was_synced
       ELSE mon_pc' = "probing" /\ was_synced' = ntp_synced
    /\ UNCHANGED << timezone_verified, ntp_vars, dst_vars,
                    startup_diagnostics_done, stop_monitoring, env_vars,
                    main_pc, current_dst, time_ok, response, status_counter,
                    verified_time, offline_duration, console, probe >>

\* lines 198-206 without the except clauses of lines 237 and 208: an
\* exception of the probe ends the thread
MonitorPollWith_Unprotected(o) ==
    /\ Alive
    /\ mon_pc = "probing"
    /\ IF o.exc # "none"
       THEN mon_pc' = "exited" /\ UNCHANGED << ntp_vars, console >>
       ELSE /\ LET s == check_ntp_status_quiet(NtpState, o, now)
               IN /\ SetNtpState(s)
                  /\ console' = Emit(console,
                                    Notification(was_synced, s.ntp_synced))
            /\ mon_pc' = "while"
    /\ probe' = Some("ntp_monitor_loop")
    /\ UNCHANGED << timezone_verified, dst_vars, startup_diagnostics_done,
                    stop_monitoring, env_vars, main_pc, current_dst, time_ok,
                    response, status_counter, verified_time,
                    offline_duration, was_synced >>

\* timedatectl returns: the update of _check_ntp_status_quiet and the
\* notification of lines 200-206
MonitorPollWith(o) ==
    /\ Alive
    /\ mon_pc = "probing"
    /\ LET s == check_ntp_status_quiet(NtpState, o, now)
       IN /\ SetNtpState(s)
          /\ console' = Emit(console, Notification(was_synced, s.ntp_synced))
    /\ probe' = Some("ntp_monitor_loop")
    /\ mon_pc' = "while"
    /\ UNCHANGED << timezone_verified, dst_vars, startup_diagnostics_done,
                    stop_monitoring, env_vars, main_pc, current_dst, time_ok, response,
                    status_counter, verified_time, offline_duration,
                    was_synced >>

MonitorPoll == \E o \in NtpOutcomes : MonitorPollWith(o)

\* ---- the environment ----------------------------------------------------

\* the system clock advances
Advance ==
    /\ Alive
    /\ now < MaxTime
    /\ now' = now + 1
    /\ UNCHANGED << timezone_verified, ntp_vars, dst_vars,
                    startup_diagnostics_done, stop_monitoring, tm_isdst,
                    main_pc, current_dst, time_ok, response, status_counter,
                    verified_time, offline_duration, mon_vars, probe >>

\* daylight saving time starts or ends
DstFlip ==
    /\ Alive
    /\ Len(dst_transitions_logged) < MaxLog
    /\ tm_isdst' = 1 - tm_isdst
    /\ UNCHANGED << timezone_verified, ntp_vars, dst_vars,
                    startup_diagnostics_done, stop_monitoring, now, main_pc,
                    current_dst, time_ok, response, status_counter, verified_time,
                    offline_duration, mon_vars, probe >>

Next ==
    \/ CheckTimezone
    \/ CheckNtpSync
    \/ VerifyFinish
    \/ Prompt
    \/ FirstDisplay
    \/ LoopTick
    \/ SigCleanup
    \/ JoinReturn
    \/ CleanupExit
    \/ MonitorWhile
    \/ MonitorWake
    \/ MonitorPoll
    \/ Advance
    \/ DstFlip

Spec == Init /\ [][Next]_vars

\* join(timeout=1) returns within its timeout: the one step the threading
\* library guarantees.  Nothing is assumed of the monitor thread.
FairSpec == Spec /\ WF_vars(JoinReturn)

\* the monitor thread is scheduled: its sleep of line 192 ends, its probe
\* returns (subprocess.run has timeout=3) and its loop test is evaluated.
\* Nothing is assumed of the main thread.
MonitorFairSpec ==
    /\ Spec
    /\ WF_vars(MonitorWhile)
    /\ WF_vars(MonitorWake)
    /\ WF_vars(MonitorPoll)

\* ---- the same program at the granularity of one field read or write ----
\* The startup steps, the thread's loop test and wake-up, the signal and
\* the environment are the actions above; the status summary of the main
\* thread and the update of the monitor thread are split at every access
\* to a field of TimeManager.

\* what the steps of the main thread below leave alone
MainFrame ==
    UNCHANGED << timezone_verified, ntp_vars, dst_vars,
                 startup_diagnostics_done, stop_monitoring, env_vars,
                 current_dst, time_ok, response, verified_time, mon_vars,
                 probe >>

\* main, lines 564-573: the tick, the counter, and the call of
\* print_status_summary when it is due (the counter is reset after the
\* call returns, line 570)
RaceTick ==
    /\ main_pc = "loop"
    /\ get_verified_time
    /\ offline_duration' = None
    /\ \E fails \in BOOLEAN :
        IF fails
        THEN UNCHANGED << status_counter, main_pc >>          \* 577-580
        ELSE IF status_counter + 1 >= StatusEvery
             THEN status_counter' = StatusEvery /\ main_pc' = "line_286"
             ELSE /\ status_counter' = status_counter + 1
                  /\ UNCHANGED main_pc
    /\ UNCHANGED << startup_diagnostics_done, env_vars, current_dst,
                    time_ok, response, mon_vars >>

\* print_status_summary, line 286: `if self.offline_mode:`
PrintStatusSummary_286 ==
    /\ main_pc = "line_286"
    /\ IF offline_mode
       THEN main_pc' = "line_278_loss" /\ UNCHANGED status_counter
       ELSE main_pc' = "loop" /\ status_counter' = 0
    /\ UNCHANGED offline_duration
    /\ MainFrame

\* get_offline_duration, line 278, left operand: `self.ntp_loss_time`
GetOfflineDuration_278_loss ==
    /\ main_pc = "line_278_loss"
    /\ IF ntp_loss_time # None
       THEN main_pc' = "line_278_offline" /\ UNCHANGED status_counter
       ELSE main_pc' = "loop" /\ status_counter' = 0           \* line 280
    /\ UNCHANGED offline_duration
    /\ MainFrame

\* get_offline_duration, line 278, right operand: `self.offline_mode`
GetOfflineDuration_278_offline ==
    /\ main_pc = "line_278_offline"
    /\ IF offline_mode
       THEN main_pc' = "line_279" /\ UNCHANGED status_counter
       ELSE main_pc' = "loop" /\ status_counter' = 0           \* line 280
    /\ UNCHANGED offline_duration
    /\ MainFrame

\* get_offline_duration, line 279: `datetime.now() - self.ntp_loss_time`
\* reads the field again; datetime - None raises TypeError
GetOfflineDuration_279 ==
    /\ main_pc = "line_279"
    /\ IF ntp_loss_time # None
       THEN /\ offline_duration' = Some(now - ntp_loss_time[1])
            /\ main_pc' = "loop"
            /\ status_counter' = 0
       ELSE /\ main_pc' = "TypeError"
            /\ UNCHANGED << offline_duration, status_counter >>
    /\ MainFrame

\* main, lines 577-580: the exception is printed, the loop goes on after
\* sleep(5); the counter was not reset
MainExcept_578 ==
    /\ main_pc = "TypeError"
    /\ main_pc' = "loop"
    /\ UNCHANGED << offline_duration, status_counter >>
    /\ MainFrame

\* what the steps of the monitor's update below leave alone
QuietFrame ==
    UNCHANGED << timezone_verified, dst_vars, startup_diagnostics_done,
                 stop_monitoring, env_vars, main_pc, current_dst, time_ok,
                 response, status_counter, verified_time, offline_duration,
                 was_synced, console >>

\* _check_ntp_status_quiet, lines 215-239: timedatectl returns and the
\* branch is chosen from the outcome and self.ntp_synced
QuietProbeReturns(o) ==
    /\ Alive
    /\ mon_pc = "probing"
    /\ probe' = Some("ntp_monitor_loop")
    /\ mon_pc' = IF o.exc # "none"
                 THEN IF ntp_synced THEN "line_240" ELSE "line_200"
                 ELSE IF o.returncode # 0 THEN "line_200"
                 ELSE IF ParseNtpSync(o) /\ ~ntp_synced THEN "line_227"
                 ELSE IF ~ParseNtpSync(o) /\ ntp_synced THEN "line_232"
                 ELSE "line_200"
    /\ UNCHANGED ntp_vars
    /\ QuietFrame

\* one assignment of lines 227-230, 232-235 or 240-243
QuietWrite(line, next_line) ==
    /\ Alive
    /\ mon_pc = line
    /\ mon_pc' = next_line
    /\ ntp_synced' = IF line = "line_227" THEN TRUE
                     ELSE IF line \in {"line_232", "line_240"} THEN FALSE
                     ELSE ntp_synced
    /\ last_ntp_sync_time' = IF line = "line_228" THEN Some(now)
                             ELSE last_ntp_sync_time
    /\ ntp_loss_time' = IF line = "line_229" THEN None
                        ELSE IF line \in {"line_233", "line_241"}
                                /\ ntp_loss_time = None THEN Some(now)
                        ELSE ntp_loss_time
    /\ offline_mode' = IF line = "line_230" THEN FALSE
                       ELSE IF line \in {"line_235", "line_243"} THEN TRUE
                       ELSE offline_mode
    /\ UNCHANGED probe
    /\ QuietFrame

\* lines 227-230: sync regained
QuietRegain ==
    \/ QuietWrite("line_227", "line_228")
    \/ QuietWrite("line_228", "line_229")
    \/ QuietWrite("line_229", "line_230")
    \/ QuietWrite("line_230", "line_200")

\* lines 232-235 and 240-243: sync lost
QuietLoss ==
    \/ QuietWrite("line_232", "line_233")
    \/ QuietWrite("line_233", "line_235")
    \/ QuietWrite("line_235", "line_200")
    \/ QuietWrite("line_240", "line_241")
    \/ QuietWrite("line_241", "line_243")
    \/ QuietWrite("line_243", "line_200")

\* _ntp_monitor_loop, lines 200-206: the notification, back to line 190
MonitorNotify ==
    /\ Alive
    /\ mon_pc = "line_200"
    /\ console' = Emit(console, Notification(was_synced, ntp_synced))
    /\ mon_pc' = "while"
    /\ UNCHANGED << timezone_verified, ntp_vars, dst_vars,
                    startup_diagnostics_done, stop_monitoring, env_vars,
                    main_pc, current_dst, time_ok, response, status_counter,
                    verified_time, offline_duration, was_synced, probe >>

RaceNext ==
    \/ CheckTimezone
    \/ CheckNtpSync
    \/ VerifyFinish
    \/ Prompt
    \/ FirstDisplay
    \/ RaceTick
    \/ PrintStatusSummary_286
    \/ GetOfflineDuration_278_loss
    \/ GetOfflineDuration_278_offline
    \/ GetOfflineDuration_279
    \/ MainExcept_578
    \/ SigCleanup
    \/ JoinReturn
    \/ CleanupExit
    \/ MonitorWhile
    \/ MonitorWake
    \/ \E o \in NtpOutcomes : QuietProbeReturns(o)
    \/ QuietRegain
    \/ QuietLoss
    \/ MonitorNotify
    \/ Advance
    \/ DstFlip

RaceSpec == Init /\ [][RaceNext]_vars

\* one display tick: display_current_time, at startup or in the loop
Tick == FirstDisplay \/ LoopTick

\* ---- what a probe outcome says ------------------------------------------

\* the command ran, exited 0 and printed the label with a yes/true value
ReportsSynced(o) == o.exc = "none" /\ o.returncode = 0 /\ ParseNtpSync(o)

\* the command ran, exited 0 and did not report synchronisation
ReportsNotSynced(o) == o.exc = "none" /\ o.returncode = 0 /\ ~ParseNtpSync(o)

\* the probe failed: an exception (timeout included) or a non-zero exit
ProbeFailed(o) == o.exc # "none" \/ o.returncode # 0

\* one sync observation with outcome o: the startup check or a monitor poll
Observation(o) ==
    \/ \E sig \in BOOLEAN : CheckNtpSyncWith(o, sig)
    \/ MonitorPollWith(o)

\* ---- C1 -----------------------------------------------------------------
\* C1 (sticky loss time): every observation that finds sync lost leaves
\* ntp_loss_time set -- to the time of the observation if it was None, to
\* its old value otherwise -- and a set ntp_loss_time changes only by being
\* cleared, and only in an observation that finds sync regained.
C1_StickyLossTime ==
    [][ /\ \A o \in NtpOutcomes :
            (Observation(o) /\ ReportsNotSynced(o)) =>
                ntp_loss_time' = IF ntp_loss_time = None
                                 THEN Some(now) ELSE ntp_loss_time
        /\ (ntp_loss_time # None /\ ntp_loss_time' # ntp_loss_time) =>
                /\ ntp_loss_time' = None
                /\ \E o \in NtpOutcomes : Observation(o) /\ ReportsSynced(o)
      ]_vars

\* ---- C2 -----------------------------------------------------------------
\* C2: every return of _check_ntp_sync from a probe that did not report
\* synchronisation (not synced, missing label, non-zero exit, exception)
\* leaves ntp_synced false, offline_mode true and ntp_loss_time set (the
\* current time if it was None, its old value otherwise), and does not raise.
C2_StartupLossOrFailure ==
    [][ \A o \in NtpOutcomes, sig \in BOOLEAN :
            (CheckNtpSyncWith(o, sig) /\ ~ReportsSynced(o)) =>
                /\ ntp_synced' = FALSE
                /\ offline_mode' = TRUE
                /\ ntp_loss_time' = IF ntp_loss_time = None
                                    THEN Some(now) ELSE ntp_loss_time
                /\ main_pc' # "crashed"
      ]_vars

C10_StopReturns ==
    /\ [](main_pc \in {"join", "stop_returned"} => stop_monitoring)
    /\ [](main_pc = "join" => ENABLED JoinReturn)
    /\ (main_pc = "join" ~> main_pc = "stop_returned")

\* the join timed out: stop_ntp_monitoring is back while the monitor thread
\* is still in its probe
C10_Witness == main_pc = "stop_returned" /\ mon_pc = "probing"

\* ---- C3 -----------------------------------------------------------------
IsPrefix(a, b) == Len(a) <= Len(b) /\ SubSeq(b, 1, Len(a)) = a

\* C3 (DST flip detection): a tick whose OS flag differs from last_dst_state
\* appends exactly one event, typed "Spring Forward" iff the flag is set and
\* "Fall Back" iff it is not; a tick with the same flag appends nothing;
\* every tick leaves last_dst_state at the flag it saw; no other step
\* touches the log, and the log only ever grows at its end.
C3_DstFlipDetection ==
    [][ /\ Tick =>
            /\ last_dst_state' = Some(tm_isdst)
            /\ IF last_dst_state # Some(tm_isdst)
               THEN /\ Len(dst_transitions_logged')
                            = Len(dst_transitions_logged) + 1
                    /\ LET e == dst_transitions_logged'[
                                    Len(dst_transitions_logged')]
                       IN /\ (e.type = "Spring Forward") <=> (tm_isdst = 1)
                          /\ (e.type = "Fall Back") <=> (tm_isdst = 0)
                          /\ e.dst_active = tm_isdst
               ELSE dst_transitions_logged' = dst_transitions_logged
        /\ ~Tick => dst_transitions_logged' = dst_transitions_logged
        /\ IsPrefix(dst_transitions_logged, dst_transitions_logged')
      ]_vars

\* two flips were seen by ticks and logged in order
C3_Witness ==
    /\ Len(dst_transitions_logged) = 2
    /\ dst_transitions_logged[1].type = "Spring Forward"
    /\ dst_transitions_logged[2].type = "Fall Back"
    /\ last_dst_state = Some(0)

\* ---- C4 -----------------------------------------------------------------
\* C4 (edge-only notifications): a monitor poll prints "NTP RESTORED" iff
\* ntp_synced was false before it and is true after it, "NTP LOST" iff it was
\* true before and is false after, and nothing when ntp_synced is unchanged;
\* and no two successive notifications on the console are of the same kind.
C4_EdgeOnlyNotifications ==
    /\ [][ \A o \in NtpOutcomes :
            MonitorPollWith(o) =>
                console' =
                    IF ~ntp_synced /\ ntp_synced'
                    THEN Emit(console, Some("NTP RESTORED"))
                    ELSE IF ntp_synced /\ ~ntp_synced'
                    THEN Emit(console, Some("NTP LOST"))
                    ELSE console
         ]_vars
    /\ [](\A i \in 1..(Len(console) - 1) : console[i] # console[i + 1])

\* a loss and then a restoration were notified
C4_Witness == console = << "NTP LOST", "NTP RESTORED" >>

\* ---- C5 -----------------------------------------------------------------
\* C5: verify_system_time returns exactly timezone_verified; the NTP check
\* that runs between the timezone check and the return leaves
\* timezone_verified as the timezone check set it, whatever its outcome; the
\* returned value stays equal to the field; and a startup with the zone
\* verified and NTP synced returns true with offline_mode false and
\* last_ntp_sync_time set.
C5_ReturnIsTimezoneOnly ==
    /\ [][ VerifyFinish =>
            /\ time_ok' = Some(timezone_verified)
            /\ timezone_verified' = timezone_verified
            /\ (timezone_verified /\ ntp_synced) =>
                    /\ time_ok' = Some(TRUE)
                    /\ offline_mode' = FALSE
                    /\ last_ntp_sync_time' # None
         ]_vars
    /\ [][ \A o \in NtpOutcomes, sig \in BOOLEAN :
            CheckNtpSyncWith(o, sig) =>
                timezone_verified' = timezone_verified
         ]_vars
    /\ [](time_ok # None => time_ok = Some(timezone_verified))

\* verify_system_time has returned true after an NTP probe that left the
\* clock unsynchronised, before any monitor poll
C5_Witness ==
    /\ time_ok = Some(TRUE)
    /\ ~ntp_synced
    /\ probe = Some("check_ntp_sync")

\* ---- C6 -----------------------------------------------------------------
\* the reported zone z is a prefix, then the expected zone, then a suffix
ContainsExpectedZone(z) ==
    \E a \in 0..Len(z) :
        /\ a + Len(EXPECTED_TIMEZONE) <= Len(z)
        /\ \A k \in 1..Len(EXPECTED_TIMEZONE) : z[a + k] = EXPECTED_TIMEZONE[k]

\* C6: _check_timezone leaves timezone_verified true iff the probe raised
\* nothing, exited 0, printed the "Time zone:" label and the expected zone is
\* a substring of the reported one; false in every other case; and it does
\* not raise.
C6_TimezoneVerdict ==
    [][ \A o \in TimezoneOutcomes :
            CheckTimezoneWith(o) =>
                /\ timezone_verified' =
                        ( /\ o.exc = "none"
                          /\ o.returncode = 0
                          /\ o.value # None
                          /\ ContainsExpectedZone(o.value[1]) )
                /\ main_pc' # "crashed"
      ]_vars

\* the timezone check has run and verified the zone
C6_Witness == main_pc = "check_ntp_sync" /\ timezone_verified

\* ---- C8 -----------------------------------------------------------------
\* C8: in every state a call of get_offline_duration returns now minus
\* ntp_loss_time when offline_mode is true and ntp_loss_time is set, and None
\* otherwise (so whenever offline_mode is false); and over any step that
\* keeps the state offline with the same ntp_loss_time the value it returns
\* does not decrease.
C8_OfflineDuration ==
    /\ []( /\ (offline_mode /\ ntp_loss_time # None) =>
                GetOfflineDuration = Some(now - ntp_loss_time[1])
           /\ ~offline_mode => GetOfflineDuration = None
           /\ ntp_loss_time = None => GetOfflineDuration = None )
    /\ [][ ( /\ offline_mode /\ offline_mode'
             /\ ntp_loss_time # None
             /\ ntp_loss_time' = ntp_loss_time ) =>
                GetOfflineDuration'[1] >= GetOfflineDuration[1]
         ]_vars

\* the status summary has printed an offline duration of one clock unit
C8_Witness == offline_duration = Some(1) /\ offline_mode

\* ---- C9 -----------------------------------------------------------------
\* C9: timedatectl is only ever run by the startup checks and by the monitor
\* loop; a display tick runs no probe and leaves the monitor thread where it
\* is, is possible whatever the monitor thread and the trust state are, and
\* returns the current time.
C9_HotPathNoProbe ==
    /\ [](probe \in { None, Some("check_timezone"), Some("check_ntp_sync"),
                     Some("ntp_monitor_loop") })
    /\ [][ Tick =>
            /\ probe' = probe
            /\ mon_pc' = mon_pc
            /\ verified_time' = Some(now)
         ]_vars
    /\ [](main_pc \in {"first_display", "loop"} => ENABLED Tick)

\* a tick returned the time while offline with an unverified zone and the
\* monitor thread inside its probe
C9_Witness ==
    /\ verified_time = Some(1)
    /\ now = 1
    /\ main_pc = "loop"
    /\ mon_pc = "probing"
    /\ probe = Some("check_ntp_sync")
    /\ offline_mode
    /\ ~timezone_verified

\* ---- C11 ----------------------------------------------------------------
\* C11 (tick exceptions are caught): no display tick -- the first one of
\* startup_sequence included -- ends the process with an uncaught
\* exception; a failing tick leaves the main thread where it retries.
C11_TickExceptionsCaught ==
    [][Tick => main_pc' = "loop"]_vars

\* ---- C12 ----------------------------------------------------------------
\* C12 as stated (literal 'y'): a tick is performed only when the timezone
\* was verified or the operator confirmed, and every answer to the prompt
\* other than the string 'y' ends the process before the first tick.
C12_OnlyLiteralY ==
    [][ /\ verified_time' # None =>
            (timezone_verified' \/ response' = Some("y"))
        /\ \A a \in PromptInputs :
            (PromptWith(a) /\ a # Some("y")) =>
                (main_pc' \in {"exited", "crashed"} /\ verified_time' = None)
      ]_vars

\* the answers that do not confirm: no answer at all, or one whose
\* lower-case form is not 'y'
Declines(a) == a = None \/ lower(a[1]) # "y"

\* C12 (amended: 'y' in either case confirms): a tick is performed only
\* when the timezone was verified or the operator confirmed, the prompt is
\* reached only when verify_system_time returned false, and every answer
\* other than 'y' or 'Y' ends the process before the first tick.
C12_ConfirmedBeforeTick ==
    /\ [](verified_time # None =>
            (timezone_verified \/ response = Some("y")))
    /\ [](main_pc = "prompt" => time_ok = Some(FALSE))
    /\ [][\A a \in PromptInputs :
            (PromptWith(a) /\ Declines(a)) =>
                (main_pc' \in {"exited", "crashed"} /\ verified_time' = None)
       ]_vars

\* the operator confirmed an unverified timezone and a tick was performed
C12_Witness ==
    /\ ~timezone_verified
    /\ response = Some("y")
    /\ verified_time # None

\* ---- C13 ----------------------------------------------------------------
\* C13 (offline_mode is the inverse of ntp_synced): once the startup NTP
\* check has run, offline_mode is true exactly when ntp_synced is false.
C13_OfflineIffNotSynced ==
    main_pc \notin {"verify_system_time", "check_ntp_sync"} =>
        (offline_mode <=> ~ntp_synced)

\* ---- C14 ----------------------------------------------------------------
\* C14 (the poll is the startup transition): from every trust state
\* reachable after startup, and for every probe outcome,
\* _check_ntp_status_quiet leaves the four NTP fields as _check_ntp_sync
\* would.
C14_QuietSameAsStartup ==
    startup_diagnostics_done =>
        \A o \in NtpOutcomes :
            check_ntp_status_quiet(NtpState, o, now)
                = check_ntp_sync(NtpState, o, now)

\* ---- C15 ----------------------------------------------------------------
\* C15 (cooperative stop): once the flag is set with the thread running,
\* the thread ends (by leaving its loop, or with the process); a wake-up
\* that finds the flag set leaves the loop without probing; and with the
\* flag set no new probe is started, so only a probe already in flight
\* can still complete.
C15_CooperativeStop ==
    /\ (stop_monitoring /\ ThreadIsAlive) ~> (mon_pc = "exited" \/ ~Alive)
    /\ [][(MonitorWake /\ stop_monitoring) =>
            (mon_pc' = "exited" /\ UNCHANGED << ntp_vars, probe >>)]_vars
    /\ [][(stop_monitoring /\ ThreadIsAlive /\ mon_pc # "probing") =>
            (mon_pc' # "probing" /\ UNCHANGED << ntp_vars, stop_monitoring >>)
       ]_vars

\* the thread has left its loop on the flag while the process still runs
C15_Witness ==
    /\ Alive
    /\ stop_monitoring
    /\ mon_pc = "exited"

\* ---- C16 ----------------------------------------------------------------
\* C16 (failure containment): whatever the probe's outcome, the poll ends
\* with the thread back at its loop test; the thread leaves its loop only
\* with the flag set; and while the flag is unset and the process runs,
\* the thread goes on from its loop test to the next probe and from the
\* probe back to the loop test.
C16_MonitorNeverDies ==
    /\ [][\A o \in NtpOutcomes : MonitorPollWith(o) => mon_pc' = "while"]_vars
    /\ [][(mon_pc # "exited" /\ mon_pc' = "exited") => stop_monitoring]_vars
    /\ (mon_pc = "while") ~> (mon_pc = "probing" \/ stop_monitoring \/ ~Alive)
    /\ (mon_pc = "probing") ~> (mon_pc = "while" \/ ~Alive)

\* a poll has returned and the thread is back at its loop test, not stopped
C16_Witness ==
    /\ Alive
    /\ ~stop_monitoring
    /\ mon_pc = "while"
    /\ probe = Some("ntp_monitor_loop")

\* ---- C17 ----------------------------------------------------------------
\* C17 (the unsynchronised read is harmless): in every interleaving of the
\* two threads' field accesses, line 279 finds ntp_loss_time set and the
\* summary returns to the loop without an exception.
C17_NoSubtractionFromNone ==
    [][GetOfflineDuration_279 =>
        (ntp_loss_time # None /\ main_pc' = "loop")]_vars

\* ---- C18 ----------------------------------------------------------------
\* C18 (disjoint write sets): a display tick, status summary included,
\* leaves the four NTP fields, timezone_verified and the stop flag as they
\* were; a step of the monitor thread leaves last_dst_state, the
\* transition log, startup_diagnostics_done and timezone_verified as they
\* were.
C18_DisjointWrites ==
    /\ [][Tick => UNCHANGED << ntp_synced, offline_mode, ntp_loss_time,
                               last_ntp_sync_time, timezone_verified,
                               stop_monitoring >>]_vars
    /\ [][(MonitorWhile \/ MonitorWake \/ MonitorPoll) =>
            UNCHANGED << last_dst_state, dst_transitions_logged,
                         startup_diagnostics_done, timezone_verified >>]_vars

\* ticks and polls have both run, and the tick has logged a transition
C18_Witness ==
    /\ main_pc = "loop"
    /\ probe = Some("ntp_monitor_loop")
    /\ Len(dst_transitions_logged) > 0
    /\ ntp_loss_time # None

\* ---- C19 ----------------------------------------------------------------
\* C19 (DST gate): with startup_diagnostics_done false,
\* monitor_dst_transition returns last_dst_state and the log as they were,
\* whatever they and the OS flag are; startup_diagnostics_done never goes
\* back to false; and whenever it is true, last_dst_state is set.
C19_DstGate ==
    /\ [](\A last \in {None, Some(0), Some(1)}, flag \in {0, 1} :
            monitor_dst_transition(FALSE, last, dst_transitions_logged,
                                   flag, now)
                = [last |-> last, log |-> dst_transitions_logged])
    /\ [][startup_diagnostics_done => startup_diagnostics_done']_vars
    /\ [](startup_diagnostics_done => last_dst_state # None)

\* the gate is up and tracking has logged a transition
C19_Witness ==
    /\ startup_diagnostics_done
    /\ last_dst_state = Some(1)
    /\ Len(dst_transitions_logged) > 0

\* ---- C20 ----------------------------------------------------------------
\* C20 (synced implies timestamp): whenever ntp_synced is true,
\* last_ntp_sync_time is set and ntp_loss_time is None; and every step that
\* takes ntp_synced from false to true, at startup or in a poll, sets
\* last_ntp_sync_time to the clock of that step.
C20_SyncedHasTime ==
    /\ [](ntp_synced => (last_ntp_sync_time # None /\ ntp_loss_time = None))
    /\ [][(~ntp_synced /\ ntp_synced') =>
            last_ntp_sync_time' = Some(now)]_vars

\* sync was regained by a poll, later than any startup check
C20_Witness ==
    /\ ntp_synced
    /\ last_ntp_sync_time = Some(MaxTime)
    /\ \E i \in 1..Len(console) : console[i] = "NTP RESTORED"

====
